---------------------------- MODULE Spec2Model ----------------------------
(***************************************************************************)
(* A model of the feed-forward network of go-neural-network: NewNetwork,   *)
(* Predict / Layer.ForwardPass, Train / Layer.BackwardPass /               *)
(* Layer.UpdateWeights.  Matrices are values stored in a heap of           *)
(* mat.Dense objects, so that the difference between overwriting an        *)
(* object in place and rebinding a pointer field, and                      *)
(* between a Layer and a copy of a Layer, is part of the model.            *)
(***************************************************************************)
EXTENDS Integers, Sequences, FiniteSets, TLC

\* Bounds of the explored instances.
MaxNeurons == 2
MaxHidden == 1
MaxInputs == 2
MaxRows == 2
MaxEpochs == 2
MaxSamples == 4
\* The width of a matrix element: elements are signed integers of this many
\* bits, and arithmetic on them wraps around.
ValueBits == 15

\* Draws of the random weight initializer, and the learning rates tried.
Seeds == {0}
LearningRates == {2}
\* The rows of the table the client predicts on.
PredictRows == {2, 3}

\* The null pointer.
Nil == 0

-----------------------------------------------------------------------------
(* The dense-matrix collaborator.  A matrix is a sequence of rows.         *)

Rows(m) == Len(m)
Cols(m) == Len(m[1])
Dims(m) == <<Rows(m), Cols(m)>>

NewDense(r, c) == [i \in 1..r |-> [j \in 1..c |-> 0]]

\* An element value brought back into the signed range of ValueBits bits.
Wrap(v) == ((v + 2 ^ (ValueBits - 1)) % (2 ^ ValueBits)) - 2 ^ (ValueBits - 1)

RECURSIVE Dot(_, _, _, _, _)
Dot(a, b, i, j, k) ==
    IF k = 0 THEN 0 ELSE Wrap(Wrap(a[i][k] * b[k][j]) + Dot(a, b, i, j, k - 1))

Multiply(a, b) ==
    [i \in 1..Rows(a) |-> [j \in 1..Cols(b) |-> Dot(a, b, i, j, Cols(a))]]
Add(a, b) ==
    [i \in 1..Rows(a) |-> [j \in 1..Cols(a) |-> Wrap(a[i][j] + b[i][j])]]
Subtract(a, b) ==
    [i \in 1..Rows(a) |-> [j \in 1..Cols(a) |-> Wrap(a[i][j] - b[i][j])]]
MultiplyElems(a, b) ==
    [i \in 1..Rows(a) |-> [j \in 1..Cols(a) |-> Wrap(a[i][j] * b[i][j])]]
Scale(s, a) ==
    [i \in 1..Rows(a) |-> [j \in 1..Cols(a) |-> Wrap(s * a[i][j])]]
Transpose(a) ==
    [j \in 1..Cols(a) |-> [i \in 1..Rows(a) |-> a[i][j]]]
\* Update returns a fresh dense matrix holding the value of its argument.
Update(m) == m

\* The shape preconditions of the collaborator; an operation whose
\* precondition fails panics.
CanMultiply(a, b) == Cols(a) = Rows(b)
SameShape(a, b) == Dims(a) = Dims(b)

\* The activation pair on integers: a bounded, monotone function that, like
\* the sigmoid, never reaches the ends of its range (it takes the values
\* 1, 2, 3 in quarters), and a positive derivative that peaks at 0.
Sigmoid(i, j, v) == IF v < 0 THEN 1 ELSE IF v = 0 THEN 2 ELSE 3
SigmoidDerivative(i, j, v) == IF v = 0 THEN 2 ELSE 1

Apply(fn, i, j, v) ==
    IF fn = "Sigmoid" THEN Sigmoid(i, j, v) ELSE SigmoidDerivative(i, j, v)
Map(fn, m) ==
    [i \in 1..Rows(m) |-> [j \in 1..Cols(m) |-> Apply(fn, i - 1, j - 1, m[i][j])]]

\* One draw of the weight initializer: a rows x cols matrix of +1 / -1.
KaimingInitialization(rows, cols, seed) ==
    [i \in 1..rows |-> [j \in 1..cols |->
        IF (i + j + seed) % 2 = 0 THEN 1 ELSE -1]]

-----------------------------------------------------------------------------
(* The data of xor_example.go.                                             *)

numbers == << <<0, 0>>, <<1, 1>>, <<1, 0>>, <<0, 1>> >>
answers == << <<0>>, <<0>>, <<1>>, <<1>> >>

\* Row r (1-based) of the example's table, widened or narrowed to w columns.
SampleRow(r, w) ==
    LET t == ((r - 1) % Len(numbers)) + 1
    IN  [c \in 1..w |-> numbers[t][((c - 1) % 2) + 1]]
TargetRow(r) == answers[((r - 1) % Len(answers)) + 1]

\* The first n rows, as batchInput (n x w) and batchTarget (n x 1); a batch
\* knows its dimensions also when it has no row.
BatchInput(n, w) == [rows |-> n, cols |-> w, data |-> [r \in 1..n |-> SampleRow(r, w)]]
BatchTarget(n) == [rows |-> n, cols |-> 1, data |-> [r \in 1..n |-> TargetRow(r)]]
\* RawRowView(i) wrapped by NewDense(1, cols, .): row i (0-based) as a matrix.
RowMatrix(batch, i) == << batch.data[i + 1] >>

-----------------------------------------------------------------------------
(* The heap of mat.Dense objects.   An object carries its value and, as    *)
(* bookkeeping, which pass wrote it (by) and whether that was during the   *)
(* sample now being processed (age).                                       *)

Obj(v, by) == [val |-> v, by |-> by, age |-> IF by = "ctor" THEN "ctor" ELSE "fresh"]

RECURSIVE MinFree(_, _)
MinFree(h, a) == IF a \in DOMAIN h THEN MinFree(h, a + 1) ELSE a
\* The address a fresh allocation gets.
NewAddr(h) == MinFree(h, 1)

\* h with object o stored at address a (a new or an existing address).
Store(h, a, o) == [x \in DOMAIN h \cup {a} |-> IF x = a THEN o ELSE h[x]]

\* The start of a new sample: everything written earlier is no longer fresh.
Aged(h) ==
    [x \in DOMAIN h |-> IF h[x].age = "fresh" THEN [h[x] EXCEPT !.age = "stale"] ELSE h[x]]

\* The pointers a Layer value holds.
LayerPtrs(l) == {l.Bias, l.Weights, l.Delta, l.Gradient, l.Activations}

\* Garbage collection: only the objects reachable from roots remain.
Collect(h, roots) == [x \in (DOMAIN h) \cap roots |-> h[x]]

-----------------------------------------------------------------------------
(* Construction.                                                           *)

\* The zero value of Layer, as make([]Layer, n) creates it.
ZeroLayer ==
    [Bias |-> Nil, Weights |-> Nil, Delta |-> Nil, Gradient |-> Nil,
     Activations |-> Nil, ActivationFunc |-> "nil",
     ActivationPrimeFunc |-> "nil", IsLastLayer |-> FALSE]

\* Faulty variant: the bias is created 1 x 1, like the caches.
layerConstructorUnitBias(h, weights, isLastLayer) ==
    LET bias == NewAddr(h)
        h1 == Store(h, bias, Obj(NewDense(1, 1), "ctor"))
        delta == NewAddr(h1)
        h2 == Store(h1, delta, Obj(NewDense(1, 1), "ctor"))
        gradient == NewAddr(h2)
        h3 == Store(h2, gradient, Obj(NewDense(1, 1), "ctor"))
        activations == NewAddr(h3)
        h4 == Store(h3, activations, Obj(NewDense(1, 1), "ctor"))
    IN  [heap |-> h4,
         layer |-> [Bias |-> bias, Weights |-> weights, Delta |-> delta,
                    Gradient |-> gradient, Activations |-> activations,
                    ActivationFunc |-> "Sigmoid",
                    ActivationPrimeFunc |-> "SigmoidDerivative",
                    IsLastLayer |-> isLastLayer]]

\* layerConstructor(weights, isLastLayer), on heap h: the new Layer and the
\* heap with its bias and its three 1 x 1 placeholder caches allocated.
layerConstructor(h, weights, isLastLayer) ==
    LET cols == Cols(h[weights].val)
        bias == NewAddr(h)
        h1 == Store(h, bias, Obj(NewDense(1, cols), "ctor"))
        delta == NewAddr(h1)
        h2 == Store(h1, delta, Obj(NewDense(1, 1), "ctor"))
        gradient == NewAddr(h2)
        h3 == Store(h2, gradient, Obj(NewDense(1, 1), "ctor"))
        activations == NewAddr(h3)
        h4 == Store(h3, activations, Obj(NewDense(1, 1), "ctor"))
    IN  [heap |-> h4,
         layer |-> [Bias |-> bias, Weights |-> weights, Delta |-> delta,
                    Gradient |-> gradient, Activations |-> activations,
                    ActivationFunc |-> "Sigmoid",
                    ActivationPrimeFunc |-> "SigmoidDerivative",
                    IsLastLayer |-> isLastLayer]]

\* KaimingInitialization followed by layerConstructor, as NewNetwork pairs them.
InitLayer(h, rows, cols, seed, isLastLayer) ==
    LET weights == NewAddr(h)
        h1 == Store(h, weights, Obj(KaimingInitialization(rows, cols, seed), "ctor"))
    IN  layerConstructor(h1, weights, isLastLayer)

\* The loop over the hidden layers, i = from .. numberOfHiddenLayers.
RECURSIVE HiddenLayers(_, _, _, _, _)
HiddenLayers(st, i, neuronsPerLayer, numberOfHiddenLayers, seed) ==
    IF i < numberOfHiddenLayers + 1
    THEN LET made == InitLayer(st.heap, neuronsPerLayer, neuronsPerLayer, seed + i, FALSE)
         IN  HiddenLayers([heap |-> made.heap,
                           layers |-> [st.layers EXCEPT ![i + 1] = made.layer]],
                          i + 1, neuronsPerLayer, numberOfHiddenLayers, seed)
    ELSE st

\* Faulty variant: the output layer is as wide as a hidden layer of two neurons.
OutputNeuronsTwo == 1 + 1
\* The output layer has a single neuron.
OutputNeurons == 1

\* make([]Layer, numberOfHiddenLayers+2) panics on a negative length, and the
\* store to Layers[0] on an empty slice.
NewNetworkPanics(numberOfHiddenLayers) == numberOfHiddenLayers + 2 < 1

\* NewNetwork(neuronsPerLayer, numberOfHiddenLayers, numberOfInputs): the
\* Network and the heap it lives in.
NewNetwork(neuronsPerLayer, numberOfHiddenLayers, numberOfInputs, seed) ==
    LET empty == [x \in {} |-> Nil]
        slots == [k \in 1..(numberOfHiddenLayers + 2) |-> ZeroLayer]
        inputLayer == InitLayer(empty, numberOfInputs, neuronsPerLayer, seed, FALSE)
        st0 == [heap |-> inputLayer.heap,
                layers |-> [slots EXCEPT ![1] = inputLayer.layer]]
        st1 == HiddenLayers(st0, 1, neuronsPerLayer, numberOfHiddenLayers, seed)
        temp == InitLayer(st1.heap, neuronsPerLayer, OutputNeurons,
                          seed + numberOfHiddenLayers + 1, TRUE)
    IN  [heap |-> temp.heap,
         network |-> [Layers |-> [st1.layers EXCEPT ![numberOfHiddenLayers + 2] = temp.layer],
                      NeuronsPerLayer |-> neuronsPerLayer,
                      NumberOfLayers |-> numberOfHiddenLayers + 2]]

-----------------------------------------------------------------------------
(* The three passes of a Layer.  Each takes the heap and the receiver's    *)
(* value and gives the heap and the receiver's value after the call.       *)

\* Multiply(input, layer.Weights), then Add(z, layer.Bias).
ForwardPanics(h, layer, input) ==
    \/ ~CanMultiply(h[input].val, h[layer.Weights].val)
    \/ ~SameShape(Multiply(h[input].val, h[layer.Weights].val), h[layer.Bias].val)

\* Faulty variant: the derivative is written over the delta object, not the gradient.
ForwardPassIntoDelta(h, layer, input) ==
    LET z == Multiply(h[input].val, h[layer.Weights].val)
        zB == Add(z, h[layer.Bias].val)
        h1 == Store(h, layer.Activations, Obj(Update(Map(layer.ActivationFunc, zB)), "forward"))
        h2 == Store(h1, layer.Delta, Obj(Update(Map(layer.ActivationPrimeFunc, zB)), "forward"))
    IN  [heap |-> h2, layer |-> layer]

\* Faulty variant: the receiver's cache fields are rebound to new objects (a plain
\* pointer assignment) instead of the objects being overwritten.
ForwardPassRebind(h, layer, input) ==
    LET z == Multiply(h[input].val, h[layer.Weights].val)
        zB == Add(z, h[layer.Bias].val)
        activations == NewAddr(h)
        h1 == Store(h, activations, Obj(Update(Map(layer.ActivationFunc, zB)), "forward"))
        gradient == NewAddr(h1)
        h2 == Store(h1, gradient, Obj(Update(Map(layer.ActivationPrimeFunc, zB)), "forward"))
    IN  [heap |-> h2,
         layer |-> [layer EXCEPT !.Activations = activations, !.Gradient = gradient]]

\* ForwardPass overwrites the objects its two cache pointers refer to; the
\* receiver's fields are not rebound.
ForwardPass(h, layer, input) ==
    LET z == Multiply(h[input].val, h[layer.Weights].val)
        zB == Add(z, h[layer.Bias].val)
        h1 == Store(h, layer.Activations, Obj(Update(Map(layer.ActivationFunc, zB)), "forward"))
        h2 == Store(h1, layer.Gradient, Obj(Update(Map(layer.ActivationPrimeFunc, zB)), "forward"))
    IN  [heap |-> h2, layer |-> layer]

\* The value BackwardPass computes for the receiver's delta.
DeltaValue(h, layer, target, rightLayer) ==
    IF layer.IsLastLayer
    THEN LET err == Subtract(h[layer.Activations].val, target)
         IN  MultiplyElems(err, h[layer.Gradient].val)
    ELSE MultiplyElems(Multiply(h[rightLayer.Delta].val,
                                Transpose(h[rightLayer.Weights].val)),
                       h[layer.Gradient].val)

BackwardPanics(h, layer, target, rightLayer) ==
    IF layer.IsLastLayer
    THEN \/ ~SameShape(h[layer.Activations].val, target)
         \/ ~SameShape(h[layer.Activations].val, h[layer.Gradient].val)
    ELSE \/ ~CanMultiply(h[rightLayer.Delta].val, Transpose(h[rightLayer.Weights].val))
         \/ ~SameShape(Multiply(h[rightLayer.Delta].val,
                                Transpose(h[rightLayer.Weights].val)),
                       h[layer.Gradient].val)

\* The cache objects BackwardPass reads.
BackwardReads(layer, rightLayer) ==
    IF layer.IsLastLayer
    THEN {layer.Activations, layer.Gradient}
    ELSE {rightLayer.Delta, layer.Gradient}

\* BackwardPass rebinds the receiver's Delta to a new object.
BackwardPass(h, layer, target, rightLayer) ==
    LET delta == NewAddr(h)
    IN  [heap |-> Store(h, delta, Obj(Update(DeltaValue(h, layer, target, rightLayer)), "backward")),
         layer |-> [layer EXCEPT !.Delta = delta]]

UpdatePanics(h, layer, leftA) ==
    \/ ~CanMultiply(Transpose(h[leftA].val), h[layer.Delta].val)
    \/ ~SameShape(h[layer.Weights].val,
                  Multiply(Transpose(h[leftA].val), h[layer.Delta].val))
    \/ ~SameShape(h[layer.Bias].val, h[layer.Delta].val)

\* The cache objects UpdateWeights reads (leftA is a cache for every layer
\* but the first, which gets the sample itself).
UpdateReads(layer, leftA) == {leftA, layer.Delta}

\* Faulty variant: the weight change is added, not subtracted.
UpdateWeightsAdd(h, layer, learningRate, leftA) ==
    LET ad == Multiply(Transpose(h[leftA].val), h[layer.Delta].val)
        change == Scale(learningRate, ad)
        weights == NewAddr(h)
        h1 == Store(h, weights, Obj(Update(Add(h[layer.Weights].val, change)), "update"))
        dB == Scale(learningRate, h[layer.Delta].val)
        bias == NewAddr(h1)
        h2 == Store(h1, bias, Obj(Update(Subtract(h[layer.Bias].val, dB)), "update"))
    IN  [heap |-> h2, layer |-> [layer EXCEPT !.Weights = weights, !.Bias = bias]]

\* UpdateWeights rebinds the receiver's Weights and Bias to new objects.
UpdateWeights(h, layer, learningRate, leftA) ==
    LET ad == Multiply(Transpose(h[leftA].val), h[layer.Delta].val)
        change == Scale(learningRate, ad)
        weights == NewAddr(h)
        h1 == Store(h, weights, Obj(Update(Subtract(h[layer.Weights].val, change)), "update"))
        dB == Scale(learningRate, h[layer.Delta].val)
        bias == NewAddr(h1)
        h2 == Store(h1, bias, Obj(Update(Subtract(h[layer.Bias].val, dB)), "update"))
    IN  [heap |-> h2, layer |-> [layer EXCEPT !.Weights = weights, !.Bias = bias]]

-----------------------------------------------------------------------------
(* The loop control of Predict and Train.  Loop variables are 0-based as   *)
(* in the code; Layers[j] of the code is Layers[j + 1] here.               *)

\* lastLayer := network.Layers[network.NumberOfLayers-1]
TrainFirstRight(net) == net.Layers[net.NumberOfLayers]
\* for ; epochs > 0; epochs--
\* Faulty variant: the epoch loop stops one epoch early.
EpochMoreStopsEarly(epochs) == epochs > 1
EpochMore(epochs) == epochs > 0
EpochNext(epochs) == epochs - 1
\* for i := 0; i < inputRows; i++
RowMore(i, inputRows) == i < inputRows
RowNext(i) == i + 1
\* for j := network.NumberOfLayers - 1; j >= 0; j--
BackwardFirst(net) == net.NumberOfLayers - 1
\* Faulty variant: the backward loop stops before layer 0.
BackwardMoreSkipFirst(j) == j > 0
BackwardMore(j) == j >= 0
BackwardNext(j) == j - 1
\* lastLayer = network.Layers[j], after Layers[j].BackwardPass
\* Faulty variant: lastLayer is not advanced.
NextRightLayerKept(layers, j, lastLayer) == lastLayer
NextRightLayer(layers, j, lastLayer) == layers[j + 1]
\* currInput := tempInput ... currInput = network.Layers[j].Activations
FirstLeft(tempInput) == tempInput
NextLeft(layers, j, currInput) == layers[j + 1].Activations
\* for j := 0; j < len(network.Layers); j++
UpdateMore(net, j) == j < Len(net.Layers)
UpdateNext(j) == j + 1
\* for _, layer := range network.Layers
\* Faulty variant: Predict's loop leaves out the last layer.
ForwardMoreSkipLast(net, k) == k < Len(net.Layers) - 1
ForwardMore(net, k) == k < Len(net.Layers)

-----------------------------------------------------------------------------
(* State.                                                                  *)

VARIABLES
    args,       \* the arguments NewNetwork was called with
    network,    \* the Network
    heap,       \* the mat.Dense objects, by address
    pc,         \* where the program is
    caller,     \* the call of the client in progress: none, Predict or Train
    predict,    \* the frame of Predict
    train,      \* the frame of Train
    samples,    \* the number of sample steps Train has started so far
    held,       \* the result of the latest completed Predict call of the
                \* client: the pointer, and the value it showed when returned
    log,        \* history: the layer passes run for the current sample
    visits,     \* history: the rows visited by the latest Train call
    call,       \* history: the latest Train call's arguments and the state
                \* it started from
    snap,       \* history: the values of the current sample's passes
    rightFrom,  \* history: where the value in Train's lastLayer came from
    staleRead   \* history: a backward or update pass read a cache that was
                \* not written during the current sample

vars == <<args, network, heap, pc, caller, predict, train, samples, held,
          log, visits, call, snap, rightFrom, staleRead>>

NoArgs == [neuronsPerLayer |-> 0, numberOfHiddenLayers |-> 0, numberOfInputs |-> 0, seed |-> 0]
NoNetwork == [Layers |-> <<>>, NeuronsPerLayer |-> 0, NumberOfLayers |-> 0]
NoPredict == [input |-> Nil, k |-> 0, currentInput |-> Nil]
NoTrain ==
    [batchInput |-> BatchInput(0, 0), batchTarget |-> BatchTarget(0),
     learningRate |-> 0, epochs |-> 0, lastLayer |-> ZeroLayer,
     targetCols |-> 0, inputRows |-> 0, inputCols |-> 0, i |-> 0, j |-> 0,
     tempInput |-> Nil, currInput |-> Nil]
NoHeld == [ptr |-> Nil, val |-> <<>>]
NoCall == [rows |-> 0, epochs |-> 0, network |-> NoNetwork, heap |-> <<>>]
NoSnap == [x0 |-> <<>>, w0 |-> <<>>, b0 |-> <<>>, a0 |-> <<>>, d0 |-> <<>>, left |-> <<>>]
NoRight == [idx |-> -1, when |-> "never"]

\* Every pointer the program still holds.
Roots(net, p, t, hd) ==
    UNION {LayerPtrs(net.Layers[k]) : k \in 1..Len(net.Layers)}
        \cup LayerPtrs(t.lastLayer)
        \cup {p.input, p.currentInput, t.tempInput, t.currInput, hd.ptr}

\* The value of field f of every layer.
Values(net, h, f) == [k \in 1..Len(net.Layers) |-> h[net.Layers[k][f]].val]

Init ==
    /\ args = NoArgs
    /\ network = NoNetwork
    /\ heap = <<>>
    /\ pc = "start"
    /\ caller = "none"
    /\ predict = NoPredict
    /\ train = NoTrain
    /\ samples = 0
    /\ held = NoHeld
    /\ log = <<>>
    /\ visits = <<>>
    /\ call = NoCall
    /\ snap = NoSnap
    /\ rightFrom = NoRight
    /\ staleRead = FALSE

\* The program stops with a panic.
Panic ==
    /\ pc' = "panic"
    /\ UNCHANGED <<args, network, heap, caller, predict, train, samples,
                   held, log, visits, call, snap, rightFrom, staleRead>>

\* model, err := NewNetwork(neuronsPerLayer, numberOfHiddenLayers, numberOfInputs)
Construct(neuronsPerLayer, numberOfHiddenLayers, numberOfInputs, seed) ==
    /\ pc = "start"
    /\ IF NewNetworkPanics(numberOfHiddenLayers)
       THEN /\ pc' = "panic"
            /\ args' = [neuronsPerLayer |-> neuronsPerLayer,
                        numberOfHiddenLayers |-> numberOfHiddenLayers,
                        numberOfInputs |-> numberOfInputs, seed |-> seed]
            /\ UNCHANGED <<network, heap, caller, predict, train, samples, held,
                           log, visits, call, snap, rightFrom, staleRead>>
       ELSE LET made == NewNetwork(neuronsPerLayer, numberOfHiddenLayers,
                                   numberOfInputs, seed)
            IN  /\ network' = made.network
                /\ heap' = made.heap
                /\ args' = [neuronsPerLayer |-> neuronsPerLayer,
                            numberOfHiddenLayers |-> numberOfHiddenLayers,
                            numberOfInputs |-> numberOfInputs, seed |-> seed]
                /\ snap' = [NoSnap EXCEPT !.a0 = Values(made.network, made.heap, "Activations")]
                /\ pc' = "idle"
                /\ UNCHANGED <<caller, predict, train, samples, held, log,
                               visits, call, rightFrom, staleRead>>

\* The client calls model.Predict on row r of its table.
PredictCall(r) ==
    /\ pc = "idle"
    /\ LET input == NewAddr(heap)
       IN  /\ heap' = Store(Aged(heap), input,
                            Obj(<<SampleRow(r, args.numberOfInputs)>>, "input"))
           /\ predict' = [input |-> input, k |-> 0, currentInput |-> input]
    /\ caller' = "Predict"
    /\ log' = <<>>
    /\ pc' = IF ForwardMore(network, 0) THEN "forward" ELSE "return"
    /\ UNCHANGED <<args, network, train, samples, held, visits, call, snap,
                   rightFrom, staleRead>>

\* One iteration of Predict's loop: layer is a copy of network.Layers[k].
ForwardStep ==
    /\ pc = "forward"
    /\ LET layer == network.Layers[predict.k + 1]
       IN  IF ForwardPanics(heap, layer, predict.currentInput)
           THEN Panic
           ELSE LET out == ForwardPass(heap, layer, predict.currentInput)
                    frame == [predict EXCEPT !.k = predict.k + 1,
                                             !.currentInput = out.layer.Activations]
                IN  /\ predict' = frame
                    /\ heap' = Collect(out.heap, Roots(network, frame, train, held))
                    /\ log' = Append(log, <<"forward", predict.k>>)
                    /\ snap' = [snap EXCEPT !.a0[predict.k + 1] =
                                                out.heap[out.layer.Activations].val]
                    /\ pc' = IF ForwardMore(network, predict.k + 1)
                             THEN "forward" ELSE "return"
                    /\ UNCHANGED <<args, network, caller, train, samples,
                                   held, visits, call, rightFrom, staleRead>>

\* return currentInput: to the client, or to Train, which drops the result
\* and enters its backward loop.
PredictReturn ==
    /\ pc = "return"
    /\ predict' = NoPredict
    /\ IF caller = "Predict"
       THEN /\ held' = [ptr |-> predict.currentInput,
                        val |-> heap[predict.currentInput].val]
            /\ heap' = Collect(heap, Roots(network, NoPredict, train, held'))
            /\ caller' = "none"
            /\ pc' = "idle"
            /\ train' = train
       ELSE /\ train' = [train EXCEPT !.j = BackwardFirst(network)]
            /\ pc' = "backward"
            /\ UNCHANGED <<held, heap, caller>>
    /\ UNCHANGED <<args, network, samples, log, visits, call, snap,
                   rightFrom, staleRead>>

\* The client calls model.Train on the first n rows of its table.
TrainCall(n, learningRate, epochs) ==
    /\ pc = "idle"
    /\ samples + n * (IF epochs > 0 THEN epochs ELSE 0) <= MaxSamples
    /\ caller' = "Train"
    /\ train' = [NoTrain EXCEPT !.batchInput = BatchInput(n, args.numberOfInputs),
                                !.batchTarget = BatchTarget(n),
                                !.learningRate = learningRate,
                                !.epochs = epochs,
                                !.lastLayer = TrainFirstRight(network)]
    /\ rightFrom' = [idx |-> network.NumberOfLayers - 1, when |-> "before"]
    /\ call' = [rows |-> n, epochs |-> epochs, network |-> network, heap |-> heap]
    /\ visits' = <<>>
    /\ log' = <<>>
    /\ pc' = "epoch"
    /\ UNCHANGED <<args, network, heap, predict, samples, held, snap, staleRead>>

\* The head of the epoch loop: one more pass over the batch, or the end of
\* Train's body.
EpochStep ==
    /\ pc = "epoch"
    /\ IF EpochMore(train.epochs)
       THEN /\ train' = [train EXCEPT !.targetCols = train.batchTarget.cols,
                                      !.inputRows = train.batchInput.rows,
                                      !.inputCols = train.batchInput.cols,
                                      !.i = 0]
            /\ pc' = "row"
       ELSE /\ train' = train
            /\ pc' = "end"
    /\ UNCHANGED <<args, network, heap, caller, predict, samples, held, log,
                   visits, call, snap, rightFrom, staleRead>>

\* Train returns to the client: its frame, and what the history variables
\* recorded about the call, are gone.
TrainReturn ==
    /\ pc = "end"
    /\ train' = NoTrain
    /\ heap' = Collect(heap, Roots(network, predict, NoTrain, held))
    /\ caller' = "none"
    /\ pc' = "idle"
    /\ log' = <<>>
    /\ visits' = <<>>
    /\ call' = NoCall
    /\ rightFrom' = NoRight
    /\ snap' = [NoSnap EXCEPT !.a0 = snap.a0]
    /\ UNCHANGED <<args, network, predict, samples, held, staleRead>>

\* The head of the row loop: row i becomes tempInput and Predict is called
\* on it, or the epoch is over.
RowStep ==
    /\ pc = "row"
    /\ IF RowMore(train.i, train.inputRows)
       THEN LET tempInput == NewAddr(heap)
                h == Store(Aged(heap), tempInput,
                           Obj(RowMatrix(train.batchInput, train.i), "input"))
            IN  /\ heap' = h
                /\ train' = [train EXCEPT !.tempInput = tempInput]
                /\ predict' = [input |-> tempInput, k |-> 0, currentInput |-> tempInput]
                /\ pc' = IF ForwardMore(network, 0) THEN "forward" ELSE "return"
                /\ log' = <<>>
                /\ visits' = Append(visits, train.i)
                /\ samples' = samples + 1
                /\ snap' = [snap EXCEPT !.x0 = h[tempInput].val,
                                        !.w0 = Values(network, heap, "Weights"),
                                        !.b0 = Values(network, heap, "Bias"),
                                        !.d0 = [k \in 1..Len(network.Layers) |-> <<>>],
                                        !.left = [k \in 1..Len(network.Layers) |-> <<>>]]
                /\ rightFrom' = [rightFrom EXCEPT !.when =
                                    IF @ = "current" THEN "previous" ELSE @]
       ELSE /\ train' = [train EXCEPT !.epochs = EpochNext(train.epochs)]
            /\ pc' = "epoch"
            /\ UNCHANGED <<heap, predict, samples, log, visits, snap, rightFrom>>
    /\ UNCHANGED <<args, network, caller, held, call, staleRead>>

\* One iteration of the backward loop, on network.Layers[j] itself, or the
\* loop's end, where the update loop is entered.
BackwardStep ==
    /\ pc = "backward"
    /\ IF BackwardMore(train.j)
       THEN LET layer == network.Layers[train.j + 1]
                tempTarget == RowMatrix(train.batchTarget, train.i)
            IN  IF BackwardPanics(heap, layer, tempTarget, train.lastLayer)
                THEN Panic
                ELSE LET out == BackwardPass(heap, layer, tempTarget, train.lastLayer)
                         layers == [network.Layers EXCEPT ![train.j + 1] = out.layer]
                         net == [network EXCEPT !.Layers = layers]
                         frame == [train EXCEPT
                                      !.lastLayer = NextRightLayer(layers, train.j, train.lastLayer),
                                      !.j = BackwardNext(train.j)]
                     IN  /\ network' = net
                         /\ train' = frame
                         /\ heap' = Collect(out.heap, Roots(net, predict, frame, held))
                         /\ log' = Append(log, <<"backward", train.j>>)
                         /\ snap' = [snap EXCEPT !.d0[train.j + 1] = out.heap[out.layer.Delta].val]
                         /\ rightFrom' = [idx |-> train.j, when |-> "current"]
                         /\ staleRead' = (staleRead
                                \/ \E a \in BackwardReads(layer, train.lastLayer) :
                                      heap[a].age # "fresh")
                         /\ pc' = "backward"
                         /\ UNCHANGED <<args, caller, predict, samples, held,
                                        visits, call>>
       ELSE /\ train' = [train EXCEPT !.currInput = FirstLeft(train.tempInput), !.j = 0]
            /\ pc' = "update"
            /\ UNCHANGED <<args, network, heap, caller, predict, samples, held,
                           log, visits, call, snap, rightFrom, staleRead>>

\* One iteration of the update loop, on network.Layers[j] itself, or the
\* loop's end, where the sample is done.
UpdateStep ==
    /\ pc = "update"
    /\ IF UpdateMore(network, train.j)
       THEN LET layer == network.Layers[train.j + 1]
            IN  IF UpdatePanics(heap, layer, train.currInput)
                THEN Panic
                ELSE LET out == UpdateWeights(heap, layer, train.learningRate, train.currInput)
                         layers == [network.Layers EXCEPT ![train.j + 1] = out.layer]
                         net == [network EXCEPT !.Layers = layers]
                         frame == [train EXCEPT
                                      !.currInput = NextLeft(layers, train.j, train.currInput),
                                      !.j = UpdateNext(train.j)]
                     IN  /\ network' = net
                         /\ train' = frame
                         /\ heap' = Collect(out.heap, Roots(net, predict, frame, held))
                         /\ log' = Append(log, <<"update", train.j>>)
                         /\ snap' = [snap EXCEPT !.left[train.j + 1] = heap[train.currInput].val]
                         /\ staleRead' = (staleRead
                                \/ \E a \in UpdateReads(layer, train.currInput) :
                                      heap[a].age # "fresh")
                         /\ pc' = "update"
                         /\ UNCHANGED <<args, caller, predict, samples, held,
                                        visits, call, rightFrom>>
       ELSE LET frame == [train EXCEPT !.i = RowNext(train.i), !.j = 0,
                                       !.tempInput = Nil, !.currInput = Nil]
            IN  /\ train' = frame
                /\ heap' = Collect(heap, Roots(network, predict, frame, held))
                /\ pc' = "row"
                /\ UNCHANGED <<args, network, caller, predict, samples, held,
                               log, visits, call, snap, rightFrom, staleRead>>

Next ==
    \/ \E neuronsPerLayer \in 1..MaxNeurons, numberOfHiddenLayers \in -2..MaxHidden,
          numberOfInputs \in 1..MaxInputs, seed \in Seeds :
          Construct(neuronsPerLayer, numberOfHiddenLayers, numberOfInputs, seed)
    \/ \E r \in PredictRows : PredictCall(r)
    \/ ForwardStep
    \/ PredictReturn
    \/ \E n \in 0..MaxRows, learningRate \in LearningRates, epochs \in -1..MaxEpochs :
          TrainCall(n, learningRate, epochs)
    \/ EpochStep
    \/ TrainReturn
    \/ RowStep
    \/ BackwardStep
    \/ UpdateStep

Spec == Init /\ [][Next]_vars

-----------------------------------------------------------------------------
(* Properties.                                                             *)

NumLayers == Len(network.Layers)
Built == pc \notin {"start", "panic"}
\* The arguments describe a network with an input-facing and an output layer.
ValidArgs ==
    /\ args.numberOfHiddenLayers >= 0
    /\ args.neuronsPerLayer >= 1
    /\ args.numberOfInputs >= 1
\* Train has completed at least one sample of the current call, and no later
\* sample has started: the history variables describe that whole sample.
SampleDone == caller = "Train" /\ pc \in {"row", "epoch", "end"} /\ visits # <<>>
InSample == caller = "Train" /\ pc \in {"forward", "return", "backward", "update"}

IsPrefix(s, t) == Len(s) <= Len(t) /\ \A p \in 1..Len(s) : s[p] = t[p]

\* Forward 0..n-1, backward n-1..0, update 0..n-1.
ExpectedPasses(n) ==
    [p \in 1..(3 * n) |->
        IF p <= n THEN <<"forward", p - 1>>
        ELSE IF p <= 2 * n THEN <<"backward", 2 * n - p>>
        ELSE <<"update", p - 2 * n - 1>>]

\* C1: within every sample of Train the layer passes run in the order
\* forward 0..L-1, backward L-1..0, update 0..L-1, each exactly once: what
\* has run so far is a prefix of that sequence, and a finished sample ran
\* all of it.
C1_PassOrder ==
    /\ InSample => IsPrefix(log, ExpectedPasses(NumLayers))
    /\ SampleDone => log = ExpectedPasses(NumLayers)

C1_Witness ==
    /\ SampleDone /\ pc = "end" /\ Len(visits) = 4
    /\ NumLayers = 3
    /\ log = ExpectedPasses(3)

\* What Predict must leave alone: the Network value (every field of every
\* layer, so every pointer and flag) and the contents of each layer's
\* weights, bias and delta objects.
Frozen ==
    [network |-> network,
     values |-> [k \in 1..NumLayers |->
                    [Weights |-> heap[network.Layers[k].Weights].val,
                     Bias |-> heap[network.Layers[k].Bias].val,
                     Delta |-> heap[network.Layers[k].Delta].val]]]

\* C2: no step of a Predict call of the client (its call, its forward
\* passes, its return) changes any layer's weights, bias, delta or flag.
C2_PredictFrame ==
    [][(caller = "Predict" \/ caller' = "Predict") => Frozen' = Frozen]_vars

C2_Witness ==
    /\ pc = "idle" /\ log # <<>> /\ samples > 0
    /\ NumLayers = 3
    /\ \A k \in 1..NumLayers : heap[network.Layers[k].Delta].by = "backward"

\* C3: for valid arguments no pass panics, and where Predict returns, the
\* matrix it returns is 1 x 1 and every layer of the network has cached
\* activations of shape 1 x (columns of its weights).
C3_PredictShapes ==
    ValidArgs =>
        /\ pc # "panic"
        /\ pc = "return" =>
            /\ Dims(heap[predict.currentInput].val) = <<1, 1>>
            /\ \A k \in 1..NumLayers :
                  Dims(heap[network.Layers[k].Activations].val)
                      = <<1, Cols(heap[network.Layers[k].Weights].val)>>

C3_Witness ==
    /\ ValidArgs /\ pc = "return" /\ caller = "Predict"
    /\ args.neuronsPerLayer = 2 /\ NumLayers = 3
    /\ Dims(heap[network.Layers[1].Activations].val) = <<1, 2>>

\* C4 (as claimed): every network NewNetwork returns has
\* numberOfHiddenLayers + 2 layers and at least 2, exactly one output layer,
\* the last, and weights of shapes inputs x neurons, neurons x neurons ...,
\* neurons x 1.
C4_Constructed ==
    Built =>
        /\ NumLayers = args.numberOfHiddenLayers + 2
        /\ NumLayers >= 2
        /\ \A k \in 1..NumLayers : network.Layers[k].IsLastLayer <=> k = NumLayers
        /\ \A k \in 1..NumLayers :
              Dims(heap[network.Layers[k].Weights].val) =
                  << IF k = 1 THEN args.numberOfInputs ELSE args.neuronsPerLayer,
                     IF k = NumLayers THEN 1 ELSE args.neuronsPerLayer >>
        /\ \A k \in 2..NumLayers :
              Rows(heap[network.Layers[k].Weights].val)
                  = Cols(heap[network.Layers[k - 1].Weights].val)

\* The same statement for the arguments that describe a network: there it holds.
C4_ValidArgs == ValidArgs => C4_Constructed

\* The rows Train(batch of n rows, epochs) must visit, in order.
ExpectedVisits(n, epochs) ==
    [p \in 1..(n * (IF epochs > 0 THEN epochs ELSE 0)) |-> (p - 1) % n]

\* The number of steps Train has left, as its loop variables bound it.
TrainMeasure ==
    IF caller # "Train" \/ pc = "panic" THEN 0
    ELSE LET S == 3 * NumLayers + 4
             N == train.batchInput.rows
             K == N * S + 2
             e == train.epochs
             r == IF pc = "forward" THEN S - 1 - predict.k
                  ELSE IF pc = "return" THEN S - 1 - NumLayers
                  ELSE IF pc = "backward" THEN S - 1 - 2 * NumLayers + train.j
                  ELSE S - 3 - 2 * NumLayers - train.j
         IN  IF pc = "end" THEN 1
             ELSE IF pc = "epoch" THEN (IF e > 0 THEN e * K + 2 ELSE 2)
             ELSE IF pc = "row" THEN (e - 1) * K + 2 + (N - train.i) * S + 1
             ELSE (e - 1) * K + 2 + (N - train.i - 1) * S + 1 + r

C5_Visits ==
    /\ caller = "Train" /\ pc # "panic" =>
          /\ IsPrefix(visits, ExpectedVisits(call.rows, call.epochs))
          /\ TrainMeasure > 0
    /\ pc = "end" =>
          /\ visits = ExpectedVisits(call.rows, call.epochs)
          /\ (call.rows = 0 \/ call.epochs <= 0) =>
                network = call.network /\ heap = call.heap
    /\ ValidArgs => pc # "panic"

\* C5: Train visits the rows 0..N-1 in increasing order in every epoch and
\* has visited exactly epochs x N rows when it returns (none, and the network
\* and its matrices are as before, when epochs <= 0 or N = 0); every step of
\* Train strictly decreases a natural number, so Train ends.
C5_TrainTerminates ==
    /\ []C5_Visits
    /\ [][caller = "Train" => TrainMeasure' < TrainMeasure]_vars

C5_Witness ==
    /\ pc = "end" /\ call.rows = 2 /\ call.epochs = 2
    /\ visits = <<0, 1, 0, 1>>

\* C6: whenever BackwardPass is about to be called on a non-output layer j,
\* the value in lastLayer is layer j+1 as it is now, with the delta its
\* backward pass of this sample computed and the weights it had when the
\* sample started; a value left from before training or from the previous
\* sample is handed only to the output layer, whose BackwardPass reads
\* nothing of it.
C6_RightNeighbour ==
    (caller = "Train" /\ pc = "backward" /\ BackwardMore(train.j)) =>
        LET layer == network.Layers[train.j + 1]
        IN  /\ ~layer.IsLastLayer =>
                /\ rightFrom = [idx |-> train.j + 1, when |-> "current"]
                /\ train.lastLayer = network.Layers[train.j + 2]
                /\ heap[train.lastLayer.Delta].by = "backward"
                /\ heap[train.lastLayer.Delta].age = "fresh"
                /\ heap[train.lastLayer.Delta].val = snap.d0[train.j + 2]
                /\ heap[train.lastLayer.Weights].val = snap.w0[train.j + 2]
            /\ rightFrom.when # "current" =>
                /\ layer.IsLastLayer
                /\ BackwardReads(layer, train.lastLayer) = BackwardReads(layer, ZeroLayer)

C6_Witness ==
    /\ caller = "Train" /\ pc = "backward" /\ train.j = 0
    /\ NumLayers = 3 /\ samples >= 2
    /\ rightFrom = [idx |-> 1, when |-> "current"]

\* C7: no backward or update pass has read a cache object that was not
\* written during the sample the pass belongs to.
C7_NoStaleRead == ~staleRead

C7_Witness ==
    /\ SampleDone /\ samples >= 2 /\ NumLayers = 3
    /\ log = ExpectedPasses(3)
    /\ ~staleRead

ColsOf(k, f) == Cols(heap[network.Layers[k][f]].val)

\* C8 (as claimed): in every state of a constructed network every layer has
\* bias, weights, activations, gradient and delta of the same number of columns.
C8_AllCols ==
    Built => \A k \in 1..NumLayers :
        /\ ColsOf(k, "Bias") = ColsOf(k, "Weights")
        /\ ColsOf(k, "Activations") = ColsOf(k, "Weights")
        /\ ColsOf(k, "Gradient") = ColsOf(k, "Weights")
        /\ ColsOf(k, "Delta") = ColsOf(k, "Weights")

\* C8 (amended): bias and weights always agree in columns, and so do
\* activations and gradient; each cache is the 1 x 1 placeholder of the
\* constructor until the layer's first forward pass (activations, gradient)
\* or first backward pass (delta), and has the columns of the weights from
\* then on.
C8_ColsOncePassed ==
    Built => \A k \in 1..NumLayers :
        LET l == network.Layers[k]
            Placeholder(a) == heap[a].by = "ctor" /\ Dims(heap[a].val) = <<1, 1>>
            Passed(a, by) == heap[a].by = by /\ Dims(heap[a].val) = <<1, ColsOf(k, "Weights")>>
        IN  /\ ColsOf(k, "Bias") = ColsOf(k, "Weights")
            /\ ColsOf(k, "Activations") = ColsOf(k, "Gradient")
            /\ heap[l.Activations].by = heap[l.Gradient].by
            /\ Placeholder(l.Activations) \/ Passed(l.Activations, "forward")
            /\ Placeholder(l.Gradient) \/ Passed(l.Gradient, "forward")
            /\ Placeholder(l.Delta) \/ Passed(l.Delta, "backward")

C8_Witness ==
    /\ pc = "idle" /\ args.neuronsPerLayer = 2 /\ NumLayers = 3
    /\ \A k \in 1..NumLayers : heap[network.Layers[k].Delta].by = "backward"
    /\ ColsOf(1, "Delta") = 2

\* C9: in the update pass, each layer already updated received the sample
\* row (layer 0) or the left layer's activations of this sample's forward
\* pass, which that layer's own update left as they were; its weights are
\* old - rate * (left^T . delta) and its bias old - rate * delta, with the
\* delta of this sample's backward pass.
C9_UpdateStep ==
    (SampleDone \/ (caller = "Train" /\ pc = "update")) =>
        \A k \in 1..(IF pc = "update" THEN train.j ELSE NumLayers) :
            LET l == network.Layers[k]
                left == IF k = 1 THEN snap.x0 ELSE snap.a0[k - 1]
            IN  /\ snap.x0 = RowMatrix(train.batchInput, visits[Len(visits)])
                /\ snap.left[k] = left
                /\ heap[l.Activations].val = snap.a0[k]
                /\ heap[l.Activations].by = "forward"
                /\ heap[l.Delta].val = snap.d0[k]
                /\ heap[l.Weights].val =
                      Subtract(snap.w0[k],
                               Scale(train.learningRate,
                                     Multiply(Transpose(left), snap.d0[k])))
                /\ heap[l.Bias].val =
                      Subtract(snap.b0[k], Scale(train.learningRate, snap.d0[k]))

C9_Witness ==
    /\ SampleDone /\ pc = "row" /\ train.i = 2 /\ NumLayers = 3
    /\ \A k \in 1..NumLayers : heap[network.Layers[k].Weights].val # snap.w0[k]

\* C10: a result the client holds from a completed Predict call is the last
\* layer's activations object itself, so it always shows the output of the
\* latest forward pass of the last layer, whoever ran it.
C10_ResultAliased ==
    held.ptr # Nil =>
        /\ held.ptr = network.Layers[NumLayers].Activations
        /\ heap[held.ptr].val = snap.a0[NumLayers]

C10_Witness ==
    /\ held.ptr # Nil
    /\ pc = "return" /\ caller = "Predict"
    /\ heap[held.ptr].val # held.val

=============================================================================
